---- MODULE Spec2Model ----
(***************************************************************************)
(* Model of the ingestion orchestrator of the scheduler service            *)
(* (scheduler.js with the manual-trigger queue): the activity-gated        *)
(* scheduled run, the per-channel ingestion loop, the indexing fan-out and *)
(* the manual-trigger consumer.  One step of a process is one awaited      *)
(* operation together with the synchronous code that follows it.           *)
(***************************************************************************)
EXTENDS Integers, Sequences, FiniteSets, Bags, TLC

----------------------------------------------------------------------------
\* Bounds of the model.
MaxMsgs == 1          \* size of the backlog of the first channel in Spec
MaxTime == 2          \* clock ticks
MaxCycles == 1        \* cron fires
MaxJobs == 1          \* payloads ever pushed on the queue
MaxFaults == 1        \* awaited operations that reject or throw in one run
SeqMsgs == 5          \* size of the backlog of the first channel in SpecRun
JobFaults == 2        \* awaited operations that reject or throw in SpecJob

\* Configuration, scaled down (the code has page size 100, 6 retries and a
\* quiet period of 15 minutes; one clock unit stands for one quiet period).
MAX_FETCH_LIMIT == 2
maxRetries == 2
quietPeriodMinutes == 1

None == "none"
BotId == "bot"                       \* discordClient.user.id
Authors == {BotId, "u1"}
Channels == {"c1", "c2"}
channelIds == <<"c1", "c2">>         \* config.channelIds
Guilds == {"gA", "gB"}
\* every channel in a guild of its own, or both channels in one guild
ownGuild == [c \in Channels |-> IF c = "c1" THEN "gA" ELSE "gB"]
sharedGuild == [c \in Channels |-> "gA"]
Procs == {"sched", "manual"}
JobIds == 1..(MaxJobs + 1)

----------------------------------------------------------------------------
VARIABLES
    guildOf,  \* channel.guild.id of each channel, as the remote side reports it
    now,      \* Date.now(), in quiet periods
    remote,   \* messages that exist on the remote side
    store,    \* the message collection, a bag of documents
    stats,    \* total_messages of each guild's stats hash
    queue,    \* the ingest queue, head is popped first
    jobs,     \* job records of the status store
    proc,     \* control state and locals of the two control loops
    hist,     \* what each run has done so far (observation only)
    nfires,   \* cron fires so far
    nenq,     \* payloads pushed so far
    faultsLeft, \* operations that may still fail
    shutdownState, \* how far shutdown() has come, and what was pending at the signal
    mongoClient, \* the one MongoClient of the module: "open" or "closed"
    botStatus \* the status field of the bot status hash

vars == <<botStatus, mongoClient, shutdownState, guildOf, now, remote, store, stats, queue, jobs, proc, hist, nfires, nenq,
          faultsLeft>>

----------------------------------------------------------------------------
\* Pure helpers.

Max(S) == CHOOSE x \in S : \A y \in S : y <= x

\* msg.createdTimestamp: discord.js derives it from the high bits of the id.
createdTimestamp(id) == id \div 2

RECURSIVE SortDesc(_)
SortDesc(S) ==
    IF S = {} THEN <<>>
    ELSE LET m == CHOOSE x \in S : \A y \in S : y.id <= x.id
         IN <<m>> \o SortDesc(S \ {m})

\* channel.messages.fetch({limit, after}): the `limit` oldest messages of the
\* channel with an id greater than `after`, returned newest first.
fetchPage(ch, after, limit) ==
    LET later == {m \in remote : m.ch = ch /\ m.id > after}
        page == {m \in later : Cardinality({x \in later : x.id < m.id}) < limit}
    IN SortDesc(page)

filterSelf_keepAll(page) == page

\* .filter(msg => msg.author.id !== discordClient.user.id)
filterSelf(page) == SelectSeq(page, LAMBDA m : m.author # BotId)

toDocument(m) ==
    [_id |-> m.id, content |-> m.content, timestamp |-> createdTimestamp(m.id),
     url |-> <<guildOf[m.ch], m.ch, m.id>>, channel |-> m.ch,
     author |-> m.author, guild |-> guildOf[m.ch]]

mapMessages(page) == [i \in 1..Len(page) |-> toDocument(page[i])]

updateOne_insert(S, d) == S (+) SetToBag({d})

\* updateOne {filter: {_id}, update: {$set: message}, upsert: true}: the first
\* document that matches gets the fields of the message, or one is inserted
updateOne(S, d) ==
    LET hits == {e \in BagToSet(S) : e._id = d._id}
    IN IF hits = {} THEN S (+) SetToBag({d})
       ELSE LET e == CHOOSE x \in hits : TRUE
            IN (S (-) SetToBag({e})) (+) SetToBag({d})

bulkWrite_overwrite(S, ops) == SetToBag({ops[i] : i \in DOMAIN ops})

RECURSIVE bulkWrite_insertMany(_, _)
bulkWrite_insertMany(S, ops) ==
    IF ops = <<>> THEN S ELSE bulkWrite_insertMany(S (+) SetToBag({Head(ops)}), Tail(ops))

RECURSIVE bulkWrite(_, _)
bulkWrite(S, ops) ==
    IF ops = <<>> THEN S ELSE bulkWrite(updateOne(S, Head(ops)), Tail(ops))

\* messages.reduce((acc, msg) => msg.timestamp > acc.timestamp ? msg : acc)
RECURSIVE reduceLatest(_, _)
reduceLatest(acc, msgs) ==
    IF msgs = <<>> THEN acc
    ELSE reduceLatest(IF Head(msgs).timestamp > acc.timestamp THEN Head(msgs) ELSE acc,
                      Tail(msgs))

latestOfPage(messages) == reduceLatest(Head(messages), Tail(messages))._id

getLatestStoredMessageId_anyChannel(S, ch) ==
    LET docs == BagToSet(S)
    IN IF docs = {} THEN {0}
       ELSE {d._id : d \in {x \in docs : \A y \in docs : y.timestamp <= x.timestamp}}

\* find({'channel.id': channelId}).sort({timestamp: -1}).limit(1): the ids the
\* query may return (the order among equal timestamps is not specified).
getLatestStoredMessageId(S, ch) ==
    LET docs == {d \in BagToSet(S) : d.channel = ch}
    IN IF docs = {} THEN {0}
       ELSE {d._id : d \in {x \in docs : \A y \in docs : y.timestamp <= x.timestamp}}

hasRecentActivity_strict(S, cutoffTime) == \E d \in BagToSet(S) : d.timestamp > cutoffTime

\* findOne({timestamp: {$gte: cutoffTime}}) !== null
hasRecentActivity(S, cutoffTime) == \E d \in BagToSet(S) : d.timestamp >= cutoffTime

loopAgain_nonempty(size) == size > 0

\* while (messagesCollection && messagesCollection.size === MAX_FETCH_LIMIT)
loopAgain(size) == size = MAX_FETCH_LIMIT

gateOutcome_exhausted(hasActivity, retriesRemaining) ==
    IF hasActivity
    THEN IF retriesRemaining > 0 THEN "backoff" ELSE "skip"
    ELSE IF retriesRemaining > 0 THEN "ingest" ELSE "skip"

gateOutcome_retry(hasActivity, retriesRemaining) ==
    IF hasActivity
    THEN IF retriesRemaining >= 0 THEN "backoff" ELSE "skip"
    ELSE "ingest"

gateOutcome_ingest(hasActivity, retriesRemaining) ==
    IF hasActivity
    THEN IF retriesRemaining > 0 THEN "backoff" ELSE "ingest"
    ELSE "ingest"

\* the branch taken by runScheduledJob after the gate check
gateOutcome(hasActivity, retriesRemaining) ==
    IF hasActivity
    THEN IF retriesRemaining > 0 THEN "backoff" ELSE "skip"
    ELSE "ingest"

needsIndexing_always(messagesIngested) == messagesIngested >= 0

needsIndexing_many(messagesIngested) == messagesIngested > 1

\* if (messagesIngested > 0) await triggerIndexing()
needsIndexing(messagesIngested) == messagesIngested > 0

ingestList_all(channelIdFilter) == channelIds

\* const channelIds = channelIdFilter ? [channelIdFilter] : config.channelIds
ingestList(channelIdFilter) ==
    IF channelIdFilter # None THEN <<channelIdFilter>> ELSE channelIds

----------------------------------------------------------------------------
\* Initial state.

NoSrc == [state |-> "none", startCursor |-> 0, cnt |-> 0, fetchLog |-> <<>>,
          unseen |-> {}, fresh |-> 0, committed |-> 0]

freshHist ==
    [checks |-> 0, allActive |-> TRUE, backoffs |-> 0, gate |-> None,
     outcome |-> None, order |-> <<>>,
     src |-> [c \in Channels |-> NoSrc], unresolved |-> {}, resolved |-> <<>>,
     posts |-> <<>>]

idleProc(pc) ==
    [pc |-> pc, retries |-> 0, cutoff |-> 0, jobId |-> 0, filter |-> None,
     chans |-> <<>>, ch |-> None, cursor |-> 0, page |-> <<>>, count |-> 0,
     total |-> 0, cur |-> 0, result |-> 0, threw |-> FALSE, guilds |-> <<>>,
     conn |-> FALSE]

\* the process is up and no signal has arrived
Running == [phase |-> "up", inFlight |-> [p \in Procs |-> <<>>]]

NoJobs == [j \in JobIds |-> [status |-> "none", ingested |-> -1, error |-> FALSE,
                             started |-> FALSE, completed |-> FALSE]]

\* The remote side: the first channel holds the messages 2..n+1, some of them
\* written by the bot itself, the second channel at most one newer message.
Backlog(n, selfIds, other) ==
    {[id |-> i, ch |-> "c1", author |-> IF i \in selfIds THEN BotId ELSE "u1",
      content |-> "text"] : i \in 2..(n + 1)}
    \cup {[id |-> n + 2, ch |-> "c2", author |-> "u1", content |-> "text"] : x \in other}

\* what earlier runs stored when the remote side ended at message k
Ingested(k) ==
    SetToBag({toDocument(m) : m \in {x \in remote : x.id <= k /\ x.author # BotId}})

\* The whole system: both control loops, the clock and the job queue.
Init ==
    /\ botStatus = "online"
    /\ mongoClient = "closed"
    /\ shutdownState = Running
    /\ guildOf = ownGuild
    /\ now = createdTimestamp(MaxMsgs + 2)
    /\ \E n \in 0..MaxMsgs, other \in {{}, {1}} :
         \E selfIds \in SUBSET (2..(n + 1)), k \in 0..(n + 2) :
           /\ remote = Backlog(n, selfIds, other)
           /\ store = Ingested(k)
    /\ stats = [g \in Guilds |-> 0]
    /\ queue = <<>>
    /\ jobs = NoJobs
    /\ proc = [p \in Procs |-> idleProc(IF p = "sched" THEN "idle" ELSE "poll")]
    /\ hist = [p \in Procs |-> freshHist]
    /\ nfires = 0
    /\ nenq = 0
    /\ faultsLeft = 0

\* A single run, scheduled or manual, over a longer backlog, in which awaited
\* operations may fail.
InitRun ==
    /\ botStatus = "online"
    /\ mongoClient = "closed"
    /\ shutdownState = Running
    /\ guildOf \in {ownGuild, sharedGuild}
    /\ \E n \in 0..SeqMsgs, other \in {{}, {1}} :
         \E selfIds \in SUBSET (2..(n + 1)), k \in 0..(n + 2) :
           /\ remote = Backlog(n, selfIds, other)
           /\ store = Ingested(k)
    /\ now \in {createdTimestamp(SeqMsgs + 2), createdTimestamp(SeqMsgs + 2) + quietPeriodMinutes + 1}
    /\ stats = [g \in Guilds |-> 0]
    /\ proc = [p \in Procs |-> idleProc(IF p = "sched" THEN "idle" ELSE "poll")]
    /\ hist = [p \in Procs |-> freshHist]
    /\ faultsLeft = MaxFaults
    /\ jobs = NoJobs
    /\ \/ queue = <<>> /\ nfires = 0 /\ nenq = MaxJobs
       \/ /\ nfires = MaxCycles
          /\ nenq = 1
          /\ \E pl \in [parses : BOOLEAN, job_id : {0, 1}, channel_id : Channels \cup {None}] :
               /\ ~pl.parses => pl.job_id = 0 /\ pl.channel_id = None
               /\ queue = <<pl>>

----------------------------------------------------------------------------
\* An awaited operation either succeeds or rejects.
Ok == faultsLeft' = faultsLeft

Fails == faultsLeft > 0 /\ faultsLeft' = faultsLeft - 1

----------------------------------------------------------------------------
\* Environment.

Tick ==
    /\ now < createdTimestamp(MaxMsgs + 2) + MaxTime
    /\ now' = now + 1
    /\ UNCHANGED <<botStatus, mongoClient, shutdownState, guildOf, remote, store, stats, queue, jobs, proc, hist, nfires, nenq, faultsLeft>>

----------------------------------------------------------------------------
\* A state s pairs the locals r of a control loop with its history h.

LogCap == SeqMsgs + 2

Log(log, x) == IF Len(log) < LogCap THEN Append(log, x) ELSE log

Cur(p) == [r |-> proc[p], h |-> hist[p]]

Step(p, s) ==
    /\ proc' = [proc EXCEPT ![p] = s.r]
    /\ hist' = [hist EXCEPT ![p] = s.h]

setSrc(s, f, v) == [s EXCEPT !.h.src[s.r.ch] = [@ EXCEPT ![f] = v]]

\* the run is over: the async function is about to return to the event loop
endRun(s, outcome) == [s EXCEPT !.r.pc = "done", !.h.outcome = outcome]

----------------------------------------------------------------------------
\* ingestMessages(channelIdFilter), run by either control loop p.

\* the call itself, up to `await mongoClient.connect()`
startIngest(s, channelIdFilter) ==
    [s EXCEPT !.r.pc = "connect", !.r.chans = ingestList(channelIdFilter),
              !.r.total = 0, !.r.threw = FALSE, !.h.order = Log(@, "ingest")]

\* the next iteration of `for (const channelId of channelIds)`, or the return
nextSource(s) ==
    IF s.r.chans = <<>>
    THEN [s EXCEPT !.r.pc = "close", !.r.ch = None, !.r.cursor = 0, !.r.page = <<>>,
                   !.r.count = 0, !.r.cur = 0, !.r.result = s.r.total]
    ELSE [s EXCEPT !.r.pc = "resolve", !.r.ch = Head(s.r.chans), !.r.chans = Tail(s.r.chans),
                   !.r.cursor = 0, !.r.page = <<>>, !.r.count = 0, !.r.cur = 0]

catchSource_rethrow(s) ==
    [setSrc(s, "state", "failed") EXCEPT !.r.pc = "close", !.r.chans = <<>>, !.r.threw = TRUE]

\* the per-channel catch block: log the error and go on with the next channel
catchSource(s) == nextSource(setSrc(s, "state", "failed"))

\* after the do-while loop: add the channel's count, then the stats update
afterLoop(s) ==
    setSrc([s EXCEPT !.r.pc = "statsGet", !.r.total = s.r.total + s.r.count, !.r.page = <<>>],
           "cnt", s.r.count)

\* the do-while condition, after a page has been handled
afterPage(s, size) ==
    IF loopAgain(size) THEN [s EXCEPT !.r.pc = "fetch", !.r.page = <<>>] ELSE afterLoop(s)

I_Connect(p) ==
    /\ proc[p].pc = "connect"
    /\ \/ /\ Ok
          /\ mongoClient' = "open"
          /\ Step(p, nextSource([Cur(p) EXCEPT !.r.conn = TRUE]))
       \/ \* connect() rejects: ingestMessages throws once the finally block is done
          /\ Fails
          /\ mongoClient' = mongoClient
          /\ Step(p, [Cur(p) EXCEPT !.r.pc = "close", !.r.chans = <<>>, !.r.threw = TRUE])
    /\ UNCHANGED <<botStatus, shutdownState, guildOf, now, remote, store, stats, queue, jobs, nfires, nenq>>

\* discordClient.channels.fetch(channelId)
I_Resolve(p) ==
    /\ proc[p].pc = "resolve"
    /\ \/ Ok /\ Step(p, setSrc([Cur(p) EXCEPT !.r.pc = "cursor"], "state", "active"))
       \/ Fails /\ Step(p, catchSource(Cur(p)))
    /\ UNCHANGED <<botStatus, mongoClient, shutdownState, guildOf, now, remote, store, stats, queue, jobs, nfires, nenq>>

I_Cursor(p) ==
    /\ proc[p].pc = "cursor"
    /\ \/ /\ Ok
          /\ \E id \in getLatestStoredMessageId(store, proc[p].ch) :
               Step(p, setSrc(setSrc([Cur(p) EXCEPT !.r.pc = "fetch", !.r.cursor = id],
                                     "startCursor", id),
                              "unseen", {m.id : m \in {x \in remote : x.ch = proc[p].ch /\ x.id > id}}))
       \/ Fails /\ Step(p, catchSource(Cur(p)))
    /\ UNCHANGED <<botStatus, mongoClient, shutdownState, guildOf, now, remote, store, stats, queue, jobs, nfires, nenq>>

I_Fetch(p) ==
    /\ proc[p].pc = "fetch"
    /\ \/ /\ Ok
          /\ LET page == fetchPage(proc[p].ch, proc[p].cursor, MAX_FETCH_LIMIT)
                 messages == mapMessages(filterSelf(page))
                 s == setSrc(Cur(p), "fetchLog", Log(hist[p].src[proc[p].ch].fetchLog, Len(page)))
             IN Step(p, IF Len(page) > 0 /\ Len(messages) > 0
                        THEN [s EXCEPT !.r.pc = "write", !.r.page = page]
                        ELSE afterPage(s, Len(page)))
       \/ Fails /\ Step(p, catchSource(Cur(p)))
    /\ UNCHANGED <<botStatus, mongoClient, shutdownState, guildOf, now, remote, store, stats, queue, jobs, nfires, nenq>>

I_Write(p) ==
    /\ proc[p].pc = "write"
    /\ LET messages == mapMessages(filterSelf(proc[p].page))
           known == {d._id : d \in BagToSet(store)}
           fresh == Cardinality({i \in 1..Len(messages) : messages[i]._id \notin known})
       IN
       \/ /\ Ok
          /\ store' = bulkWrite(store, messages)
          /\ Step(p, afterPage(setSrc(setSrc([Cur(p) EXCEPT !.r.cursor = latestOfPage(messages),
                                                            !.r.count = @ + Len(messages)],
                                             "fresh", hist[p].src[proc[p].ch].fresh + fresh),
                                      "committed", hist[p].src[proc[p].ch].committed + Len(messages)),
                               Len(proc[p].page)))
       \/ \* an ordered bulk write stops at the first operation that fails
          /\ Fails
          /\ \E k \in 0..Len(messages) :
               /\ store' = bulkWrite(store, SubSeq(messages, 1, k))
               /\ Step(p, catchSource(
                          setSrc(setSrc(Cur(p), "committed",
                                        hist[p].src[proc[p].ch].committed + k),
                                 "fresh",
                                 hist[p].src[proc[p].ch].fresh
                                   + Cardinality({i \in 1..k : messages[i]._id \notin known}))))
    /\ UNCHANGED <<botStatus, mongoClient, shutdownState, guildOf, now, remote, stats, queue, jobs, nfires, nenq>>

\* redisClient.hGetAll(guildStatsKey)
I_StatsGet(p) ==
    /\ proc[p].pc = "statsGet"
    /\ \/ Ok /\ Step(p, [Cur(p) EXCEPT !.r.pc = "statsSet", !.r.cur = stats[guildOf[proc[p].ch]]])
       \/ Fails /\ Step(p, catchSource(Cur(p)))
    /\ UNCHANGED <<botStatus, mongoClient, shutdownState, guildOf, now, remote, store, stats, queue, jobs, nfires, nenq>>

\* redisClient.hSet(guildStatsKey, {total_messages, ...})
I_StatsSet(p) ==
    /\ proc[p].pc = "statsSet"
    /\ \/ /\ Ok
          /\ stats' = [stats EXCEPT ![guildOf[proc[p].ch]] = proc[p].cur + proc[p].count]
          /\ Step(p, nextSource(setSrc(Cur(p), "state", "ok")))
       \/ /\ Fails
          /\ stats' = stats
          /\ Step(p, catchSource(Cur(p)))
    /\ UNCHANGED <<botStatus, mongoClient, shutdownState, guildOf, now, remote, store, queue, jobs, nfires, nenq>>

----------------------------------------------------------------------------
\* triggerIndexing() and the code of the callers around the two calls.

RECURSIVE guildIdsOf_perChannel(_, _, _)
guildIdsOf_perChannel(chans, failing, acc) ==
    IF chans = <<>> THEN acc
    ELSE guildIdsOf_perChannel(Tail(chans), failing,
                               IF Head(chans) \in failing THEN acc
                               ELSE Append(acc, guildOf[Head(chans)]))

RECURSIVE guildIdsOf(_, _, _)
\* the Set built from the channels that resolve, in insertion order
guildIdsOf(chans, failing, acc) ==
    IF chans = <<>> THEN acc
    ELSE LET c == Head(chans)
             g == guildOf[c]
             seen == \E i \in 1..Len(acc) : acc[i] = g
         IN guildIdsOf(Tail(chans), failing,
                       IF c \in failing \/ seen THEN acc ELSE Append(acc, g))

markOrEnd_skip(p, s, pc, outcome) == endRun(s, outcome)

\* the job-status write that ends processManualTrigger, when there is a job id
markOrEnd(p, s, pc, outcome) ==
    IF p = "manual" /\ s.r.jobId # 0 THEN [s EXCEPT !.r.pc = pc] ELSE endRun(s, outcome)

startIndexing(s) == [s EXCEPT !.r.pc = "idxResolve", !.h.order = Log(@, "index")]

afterIndexing_strict(p, s) ==
    IF s.h.unresolved # {} \/ \E i \in 1..Len(s.h.posts) : ~s.h.posts[i][2]
    THEN markOrEnd(p, s, "markFailed", "failed")
    ELSE markOrEnd(p, s, "markCompleted", "completed")

afterIndexing(p, s) == markOrEnd(p, s, "markCompleted", "completed")

afterIngest_retry(p, s) ==
    IF s.r.threw
    THEN IF p = "sched" THEN [s EXCEPT !.r.pc = "backoff"]
         ELSE markOrEnd(p, s, "markFailed", "failed")
    ELSE IF needsIndexing(s.r.result) THEN startIndexing(s) ELSE afterIndexing(p, s)

afterIngest_swallow(p, s) ==
    IF needsIndexing(s.r.result) THEN startIndexing(s) ELSE afterIndexing(p, s)

\* the caller's code after `await ingestMessages(...)`
afterIngest(p, s) ==
    IF s.r.threw
    THEN markOrEnd(p, s, "markFailed", "failed")
    ELSE IF needsIndexing(s.r.result) THEN startIndexing(s) ELSE afterIndexing(p, s)

closeAfter_onSuccess(connected, threw) == IF threw THEN connected ELSE FALSE

\* finally { await mongoClient.close() }: close() is called whether the try
\* block ended normally or threw; the run holds no connection once the call
\* has settled
closeAfter(connected, threw) == FALSE

\* finally { await mongoClient.close() } and the return to the caller
I_Close(p) ==
    /\ proc[p].pc = "close"
    /\ LET s == [Cur(p) EXCEPT !.h.order = Log(@, "return"),
                               !.r.conn = closeAfter(@, proc[p].threw)] IN
       \/ Ok /\ Step(p, afterIngest(p, s))
       \/ Fails /\ Step(p, afterIngest(p, [s EXCEPT !.r.threw = TRUE]))
    /\ mongoClient' = "closed"
    /\ UNCHANGED <<botStatus, shutdownState, guildOf, now, remote, store, stats, queue, jobs, nfires, nenq>>

\* the loop over config.channelIds that collects the guild ids
T_Resolve(p) ==
    /\ proc[p].pc = "idxResolve"
    /\ \E failing \in SUBSET Channels :
         /\ Cardinality(failing) <= faultsLeft
         /\ faultsLeft' = faultsLeft - Cardinality(failing)
         /\ LET gs == guildIdsOf(channelIds, failing, <<>>)
                s == [Cur(p) EXCEPT !.h.unresolved = failing]
            IN Step(p, IF gs = <<>> THEN afterIndexing(p, s)
                       ELSE [s EXCEPT !.r.pc = "idxPost", !.r.guilds = gs,
                                      !.h.resolved = gs])
    /\ UNCHANGED <<botStatus, mongoClient, shutdownState, guildOf, now, remote, store, stats, queue, jobs, nfires, nenq>>

postNext_resend(p, s, ok) ==
    IF ~ok THEN [s EXCEPT !.r.guilds = <<s.h.posts[Len(s.h.posts)][1]>> \o @]
    ELSE IF s.r.guilds = <<>> THEN afterIndexing(p, s) ELSE s

postNext_abort(p, s, ok) ==
    IF ~ok \/ s.r.guilds = <<>> THEN afterIndexing(p, s) ELSE s

\* the try/catch around axios.post: whatever the outcome, the loop over the
\* guild ids goes on
postNext(p, s, ok) == IF s.r.guilds = <<>> THEN afterIndexing(p, s) ELSE s

\* one axios.post per guild; a failure or a timeout is logged
T_Post(p) ==
    /\ proc[p].pc = "idxPost"
    /\ \E ok \in BOOLEAN :
         /\ IF ok THEN Ok ELSE Fails
         /\ LET s == [Cur(p) EXCEPT !.r.guilds = Tail(@),
                                    !.h.posts = Log(@, <<Head(proc[p].guilds), ok>>)]
            IN Step(p, postNext(p, s, ok))
    /\ UNCHANGED <<botStatus, mongoClient, shutdownState, guildOf, now, remote, store, stats, queue, jobs, nfires, nenq>>

Return_unlessFailed(p) ==
    /\ proc[p].pc = "done"
    /\ hist[p].outcome \notin {"failed", "aborted"}
    /\ Step(p, [r |-> idleProc(IF p = "sched" THEN "idle" ELSE "poll"), h |-> freshHist])
    /\ UNCHANGED <<botStatus, mongoClient, shutdownState, guildOf, now, remote, store, stats, queue, jobs, nfires, nenq, faultsLeft>>

\* The promise of the run settles: the scheduled controller waits for the next
\* timer, the consumer re-enters pollQueue through setImmediate.
Return(p) ==
    /\ proc[p].pc = "done"
    /\ Step(p, [r |-> idleProc(IF p = "sched" THEN "idle" ELSE "poll"), h |-> freshHist])
    /\ UNCHANGED <<botStatus, mongoClient, shutdownState, guildOf, now, remote, store, stats, queue, jobs, nfires, nenq, faultsLeft>>

----------------------------------------------------------------------------
\* runScheduledJob(retriesRemaining)

\* cron.schedule callback: runScheduledJob() with the default argument
CronFire ==
    /\ proc["sched"].pc = "idle"
    /\ nfires < MaxCycles
    /\ nfires' = nfires + 1
    /\ Step("sched", [r |-> [idleProc("gate") EXCEPT !.retries = maxRetries,
                                                     !.cutoff = now - quietPeriodMinutes],
                      h |-> freshHist])
    /\ UNCHANGED <<botStatus, mongoClient, shutdownState, guildOf, now, remote, store, stats, queue, jobs, nenq, faultsLeft>>

S_Gate ==
    /\ proc["sched"].pc = "gate"
    /\ LET a == hasRecentActivity(store, proc["sched"].cutoff)
           o == gateOutcome(a, proc["sched"].retries)
           s == [Cur("sched") EXCEPT !.h.checks = @ + 1]
           t == [s EXCEPT !.h.gate = IF a THEN "active" ELSE "quiet", !.h.allActive = @ /\ a]
       IN
       \/ /\ Ok
          /\ LET u == [t EXCEPT !.r.conn = closeAfter(TRUE, FALSE)] IN
             Step("sched", CASE o = "backoff" -> [u EXCEPT !.r.pc = "backoff"]
                             [] o = "skip" -> endRun(u, "skipped")
                             [] o = "ingest" -> startIngest(u, None))
       \/ \* connect() or findOne() throws: the finally block runs, the error is
          \* caught by the try block of runScheduledJob
          /\ Fails
          /\ \E connected \in BOOLEAN :
               Step("sched", endRun([s EXCEPT !.h.allActive = FALSE,
                                              !.r.conn = closeAfter(connected, TRUE)],
                                    "failed"))
    /\ mongoClient' = "closed"
    /\ UNCHANGED <<botStatus, shutdownState, guildOf, now, remote, store, stats, queue, jobs, nfires, nenq>>

\* the setTimeout callback: runScheduledJob(retriesRemaining - 1)
S_Backoff ==
    /\ proc["sched"].pc = "backoff"
    /\ Step("sched", [Cur("sched") EXCEPT !.r.pc = "gate", !.r.retries = @ - 1,
                                          !.r.cutoff = now - quietPeriodMinutes,
                                          !.h.backoffs = @ + 1, !.h.gate = None])
    /\ UNCHANGED <<botStatus, mongoClient, shutdownState, guildOf, now, remote, store, stats, queue, jobs, nfires, nenq, faultsLeft>>

----------------------------------------------------------------------------
\* The manual-trigger consumer: pollQueue and processManualTrigger.

\* a payload either fails JSON.parse or carries an optional job_id and channel_id
Payloads ==
    [parses : {FALSE}, job_id : {0}, channel_id : {None}]
    \cup [parses : {TRUE}, job_id : {0, nenq + 1}, channel_id : Channels \cup {None}]

\* a payload is pushed on the queue that brPop reads
Enqueue ==
    /\ nenq < MaxJobs
    /\ \E pl \in Payloads : queue' = Append(queue, pl)
    /\ nenq' = nenq + 1
    /\ UNCHANGED <<botStatus, mongoClient, shutdownState, guildOf, now, remote, store, stats, jobs, proc, hist, nfires, faultsLeft>>

\* hSet merges the given fields into the hash
hSet(j, fields) ==
    [jobs EXCEPT ![j] = [f \in DOMAIN @ |-> IF f \in DOMAIN fields THEN fields[f] ELSE @[f]]]

dispatch_gated(pl, s) ==
    IF ~pl.parses THEN endRun(s, "discarded")
    ELSE IF hasRecentActivity(store, now - quietPeriodMinutes) THEN endRun(s, "skipped")
    ELSE IF pl.job_id # 0 THEN [s EXCEPT !.r.pc = "markRunning"]
    ELSE startIngest(s, pl.channel_id)

dispatch_unchecked(pl, s) ==
    IF pl.job_id # 0 THEN [s EXCEPT !.r.pc = "markRunning"]
    ELSE startIngest(s, pl.channel_id)

\* try { JSON.parse; processManualTrigger } catch { log }: a payload that does
\* not parse is dropped, another one starts processManualTrigger
dispatch(pl, s) ==
    IF ~pl.parses THEN endRun(s, "discarded")
    ELSE IF pl.job_id # 0 THEN [s EXCEPT !.r.pc = "markRunning"]
    ELSE startIngest(s, pl.channel_id)

\* brPop, JSON.parse and processManualTrigger up to its first await
M_Poll ==
    /\ proc["manual"].pc = "poll"
    /\ \/ \* timeout on an empty queue, or a poll error: poll again
          UNCHANGED <<queue, proc, hist>>
       \/ /\ queue # <<>>
          /\ queue' = Tail(queue)
          /\ LET pl == Head(queue)
                 s == [r |-> [idleProc("poll") EXCEPT !.jobId = pl.job_id, !.filter = pl.channel_id],
                       h |-> freshHist]
             IN Step("manual", dispatch(pl, s))
    /\ UNCHANGED <<botStatus, mongoClient, shutdownState, guildOf, now, remote, store, stats, jobs, nfires, nenq, faultsLeft>>

M_MarkRunning ==
    /\ proc["manual"].pc = "markRunning"
    /\ \/ /\ Ok
          /\ jobs' = hSet(proc["manual"].jobId, [status |-> "running", started |-> TRUE])
          /\ Step("manual", startIngest(Cur("manual"), proc["manual"].filter))
       \/ \* the write throws before the try block: caught by pollQueue
          /\ Fails
          /\ jobs' = jobs
          /\ Step("manual", endRun(Cur("manual"), "aborted"))
    /\ UNCHANGED <<botStatus, mongoClient, shutdownState, guildOf, now, remote, store, stats, queue, nfires, nenq>>

M_MarkCompleted ==
    /\ proc["manual"].pc = "markCompleted"
    /\ \/ /\ Ok
          /\ jobs' = hSet(proc["manual"].jobId,
                          [status |-> "completed", completed |-> TRUE,
                           ingested |-> proc["manual"].result])
          /\ Step("manual", endRun(Cur("manual"), "completed"))
       \/ \* the write throws inside the try block: the catch block runs
          /\ Fails
          /\ jobs' = jobs
          /\ Step("manual", [Cur("manual") EXCEPT !.r.pc = "markFailed"])
    /\ UNCHANGED <<botStatus, mongoClient, shutdownState, guildOf, now, remote, store, stats, queue, nfires, nenq>>

M_MarkFailed ==
    /\ proc["manual"].pc = "markFailed"
    /\ \/ /\ Ok
          /\ jobs' = hSet(proc["manual"].jobId,
                          [status |-> "failed", error |-> TRUE, completed |-> TRUE])
          /\ Step("manual", endRun(Cur("manual"), "failed"))
       \/ \* the write throws inside the catch block: caught by pollQueue
          /\ Fails
          /\ jobs' = jobs
          /\ Step("manual", endRun(Cur("manual"), "aborted"))
    /\ UNCHANGED <<botStatus, mongoClient, shutdownState, guildOf, now, remote, store, stats, queue, nfires, nenq>>

----------------------------------------------------------------------------
\* Two manual triggers of the first channel, one after the other, with failing
\* operations: what the second run finds is what the first one left.
InitRetry ==
    /\ botStatus = "online"
    /\ mongoClient = "closed"
    /\ shutdownState = Running
    /\ guildOf = ownGuild
    /\ \E n \in 0..SeqMsgs :
         \E selfIds \in SUBSET (2..(n + 1)), k \in 0..(n + 2) :
           /\ remote = Backlog(n, selfIds, {})
           /\ store = Ingested(k)
    /\ now = createdTimestamp(SeqMsgs + 2)
    /\ stats = [g \in Guilds |-> 0]
    /\ proc = [p \in Procs |-> idleProc(IF p = "sched" THEN "idle" ELSE "poll")]
    /\ hist = [p \in Procs |-> freshHist]
    /\ faultsLeft = MaxFaults
    /\ jobs = NoJobs
    /\ nfires = MaxCycles
    /\ nenq = 2
    /\ queue = [i \in 1..2 |-> [parses |-> TRUE, job_id |-> 0, channel_id |-> "c1"]]

NextRetry ==
    \/ M_Poll
    \/ \E p \in Procs : I_Connect(p)
    \/ \E p \in Procs : I_Resolve(p)
    \/ \E p \in Procs : I_Cursor(p)
    \/ \E p \in Procs : I_Fetch(p)
    \/ \E p \in Procs : I_Write(p)
    \/ \E p \in Procs : I_StatsGet(p)
    \/ \E p \in Procs : I_StatsSet(p)
    \/ \E p \in Procs : I_Close(p)
    \/ \E p \in Procs : T_Resolve(p)
    \/ \E p \in Procs : T_Post(p)
    \/ \E p \in Procs : Return(p)

SpecRetry == InitRetry /\ [][NextRetry]_vars

----------------------------------------------------------------------------
\* Two manual jobs with a job id, one after the other, during which several
\* operations may fail.
InitJob ==
    /\ botStatus = "online"
    /\ mongoClient = "closed"
    /\ shutdownState = Running
    /\ guildOf = ownGuild
    /\ now = createdTimestamp(MaxMsgs + 2)
    /\ \E n \in 0..MaxMsgs, other \in {{}, {1}} :
         \E selfIds \in SUBSET (2..(n + 1)), k \in 0..(n + 2) :
           /\ remote = Backlog(n, selfIds, other)
           /\ store = Ingested(k)
    /\ stats = [g \in Guilds |-> 0]
    /\ proc = [p \in Procs |-> idleProc(IF p = "sched" THEN "idle" ELSE "poll")]
    /\ hist = [p \in Procs |-> freshHist]
    /\ faultsLeft = JobFaults
    /\ jobs = NoJobs
    /\ nfires = MaxCycles
    /\ nenq = 2
    /\ \E c \in Channels \cup {None} :
         queue = [i \in 1..2 |-> [parses |-> TRUE, job_id |-> i, channel_id |-> c]]

NextJob ==
    \/ M_Poll
    \/ M_MarkRunning
    \/ M_MarkCompleted
    \/ M_MarkFailed
    \/ \E p \in Procs : I_Connect(p)
    \/ \E p \in Procs : I_Resolve(p)
    \/ \E p \in Procs : I_Cursor(p)
    \/ \E p \in Procs : I_Fetch(p)
    \/ \E p \in Procs : I_Write(p)
    \/ \E p \in Procs : I_StatsGet(p)
    \/ \E p \in Procs : I_StatsSet(p)
    \/ \E p \in Procs : I_Close(p)
    \/ \E p \in Procs : T_Resolve(p)
    \/ \E p \in Procs : T_Post(p)
    \/ \E p \in Procs : Return(p)

SpecJob == InitJob /\ [][NextJob]_vars

----------------------------------------------------------------------------
\* shutdown(), the handler of SIGINT and SIGTERM

\* the fetch or bulkWrite run p is awaiting, or <<>>
pending(p) == IF proc[p].pc \in {"fetch", "write"} THEN <<proc[p], hist[p]>> ELSE <<>>

\* the signal arrives: shutdown() runs up to `await redisClient.hSet(...)`;
\* the client sends its commands in the order of the calls, so the write takes
\* its place before every command that is called later
Sd_Signal ==
    /\ shutdownState.phase = "up"
    /\ shutdownState' = [phase |-> "offline", inFlight |-> [p \in Procs |-> pending(p)]]
    /\ botStatus' = "offline"
    /\ UNCHANGED <<mongoClient, guildOf, now, remote, store, stats, queue, jobs, proc, hist,
                   nfires, nenq, faultsLeft>>

\* the status write has settled: `await redisClient.quit()`
Sd_Quit ==
    /\ shutdownState.phase = "offline"
    /\ shutdownState' = [shutdownState EXCEPT !.phase = "quit"]
    /\ UNCHANGED <<botStatus, mongoClient, guildOf, now, remote, store, stats, queue, jobs, proc, hist,
                   nfires, nenq, faultsLeft>>

\* quit() has settled: `await discordClient.destroy()`
Sd_Destroy ==
    /\ shutdownState.phase = "quit"
    /\ shutdownState' = [shutdownState EXCEPT !.phase = "destroy"]
    /\ UNCHANGED <<botStatus, mongoClient, guildOf, now, remote, store, stats, queue, jobs, proc, hist,
                   nfires, nenq, faultsLeft>>

\* destroy() has settled: process.exit(0), whatever the control loops are
\* awaiting
Sd_Exit ==
    /\ shutdownState.phase = "destroy"
    /\ shutdownState' = [shutdownState EXCEPT !.phase = "exited"]
    /\ UNCHANGED <<botStatus, mongoClient, guildOf, now, remote, store, stats, queue, jobs, proc, hist,
                   nfires, nenq, faultsLeft>>

\* quit() has not settled: a command of the redis client can be served
RedisOpen == shutdownState.phase \in {"up", "offline", "quit"}

\* quit() has been called: a command of the redis client can reject
RedisClosed == shutdownState.phase \in {"quit", "destroy"}

\* hGetAll or hSet on the closed client rejects: the catch block of the
\* channel runs
I_StatsRejected(p) ==
    /\ proc[p].pc \in {"statsGet", "statsSet"}
    /\ RedisClosed
    /\ Ok
    /\ Step(p, catchSource(Cur(p)))
    /\ UNCHANGED <<botStatus, mongoClient, shutdownState, guildOf, now, remote, store, stats, queue, jobs, nfires, nenq>>

\* setInterval(updateBotStatus, 30000): the timer is never cleared; the hSet of
\* status online is served while the client is open and rejects, into the
\* catch block, once quit() has been called
P_Heartbeat ==
    /\ shutdownState.phase # "exited"
    /\ \/ RedisOpen /\ botStatus' = "online"
       \/ RedisClosed /\ botStatus' = botStatus
    /\ UNCHANGED <<mongoClient, shutdownState, guildOf, now, remote, store, stats, queue, jobs,
                   proc, hist, nfires, nenq, faultsLeft>>

\* A scheduled cycle and the heartbeat timer, during which a shutdown signal
\* may arrive; the job queue stays empty. Nothing runs once the process has
\* exited.
NextStop ==
    \/ Sd_Signal
    \/ P_Heartbeat
    \/ Sd_Quit
    \/ Sd_Destroy
    \/ Sd_Exit
    \/ shutdownState.phase # "exited" /\ CronFire
    \/ shutdownState.phase # "exited" /\ S_Gate
    \/ shutdownState.phase # "exited" /\ S_Backoff
    \/ shutdownState.phase # "exited" /\ \E p \in Procs : I_Connect(p)
    \/ shutdownState.phase # "exited" /\ \E p \in Procs : I_Resolve(p)
    \/ shutdownState.phase # "exited" /\ \E p \in Procs : I_Cursor(p)
    \/ shutdownState.phase # "exited" /\ \E p \in Procs : I_Fetch(p)
    \/ shutdownState.phase # "exited" /\ \E p \in Procs : I_Write(p)
    \/ RedisOpen /\ \E p \in Procs : I_StatsGet(p)
    \/ RedisOpen /\ \E p \in Procs : I_StatsSet(p)
    \/ \E p \in Procs : I_StatsRejected(p)
    \/ shutdownState.phase # "exited" /\ \E p \in Procs : I_Close(p)
    \/ shutdownState.phase # "exited" /\ \E p \in Procs : T_Resolve(p)
    \/ shutdownState.phase # "exited" /\ \E p \in Procs : T_Post(p)
    \/ shutdownState.phase # "exited" /\ \E p \in Procs : Return(p)

SpecStop == Init /\ [][NextStop]_vars

----------------------------------------------------------------------------
\* The whole system while no awaited operation fails (no catch block runs).
Next ==
    \/ Tick
    \/ Enqueue
    \/ CronFire
    \/ S_Gate
    \/ S_Backoff
    \/ M_Poll
    \/ M_MarkRunning
    \/ M_MarkCompleted
    \/ \E p \in Procs : I_Connect(p)
    \/ \E p \in Procs : I_Resolve(p)
    \/ \E p \in Procs : I_Cursor(p)
    \/ \E p \in Procs : I_Fetch(p)
    \/ \E p \in Procs : I_Write(p)
    \/ \E p \in Procs : I_StatsGet(p)
    \/ \E p \in Procs : I_StatsSet(p)
    \/ \E p \in Procs : I_Close(p)
    \/ \E p \in Procs : T_Resolve(p)
    \/ \E p \in Procs : T_Post(p)
    \/ \E p \in Procs : Return(p)

Spec == Init /\ [][Next]_vars

\* One run of either control loop, with failing operations.
NextRun ==
    \/ CronFire
    \/ S_Gate
    \/ S_Backoff
    \/ M_Poll
    \/ M_MarkRunning
    \/ M_MarkCompleted
    \/ M_MarkFailed
    \/ \E p \in Procs : I_Connect(p)
    \/ \E p \in Procs : I_Resolve(p)
    \/ \E p \in Procs : I_Cursor(p)
    \/ \E p \in Procs : I_Fetch(p)
    \/ \E p \in Procs : I_Write(p)
    \/ \E p \in Procs : I_StatsGet(p)
    \/ \E p \in Procs : I_StatsSet(p)
    \/ \E p \in Procs : I_Close(p)
    \/ \E p \in Procs : T_Resolve(p)
    \/ \E p \in Procs : T_Post(p)
    \/ \E p \in Procs : Return(p)

SpecRun == InitRun /\ [][NextRun]_vars

----------------------------------------------------------------------------
\* Properties.

Range(f) == {f[i] : i \in DOMAIN f}

\* C1: in a scheduled cycle whose gate checks all report activity, the
\* controller re-enters after a backoff exactly maxRetries times, then stops
\* with the outcome "skipped"; it calls neither ingestMessages nor
\* triggerIndexing in that cycle.
C1_BackoffBound ==
    LET r == proc["sched"]
        h == hist["sched"]
    IN (h.checks > 0 /\ h.allActive) =>
         /\ h.backoffs <= maxRetries
         /\ h.checks <= maxRetries + 1
         /\ h.order = <<>> /\ h.posts = <<>>
         /\ r.pc \in {"gate", "backoff", "done"}
         /\ r.pc = "backoff" => h.backoffs < maxRetries
         /\ r.pc = "done" => /\ h.outcome = "skipped"
                             /\ h.backoffs = maxRetries
                             /\ h.checks = maxRetries + 1

C1_Witness ==
    /\ proc["sched"].pc = "done"
    /\ hist["sched"].outcome = "skipped"
    /\ hist["sched"].allActive
    /\ hist["sched"].backoffs = maxRetries
    /\ maxRetries > 0

\* C2: the scheduled controller calls ingestMessages only in a pass whose own
\* gate check reported no activity; a pass that saw activity calls neither
\* ingestMessages nor triggerIndexing.
C2_IngestOnlyWhenQuiet ==
    LET r == proc["sched"]
        h == hist["sched"]
        ingesting == r.pc \in {"connect", "resolve", "cursor", "fetch", "write",
                               "statsGet", "statsSet", "close", "idxResolve", "idxPost"}
    IN /\ (ingesting \/ h.order # <<>>) => h.gate = "quiet"
       /\ h.gate = "active" => r.pc \in {"backoff", "done"} /\ h.order = <<>> /\ h.posts = <<>>

C2_Witness ==
    /\ proc["sched"].pc = "write"
    /\ hist["sched"].gate = "quiet"
    /\ hist["sched"].backoffs > 0

\* ingestMessages has returned the number n to its caller p
Returned(p) == "return" \in Range(hist[p].order) /\ ~proc[p].threw

\* C3: when ingestMessages returns 0, triggerIndexing is not called in that
\* run, scheduled or manual.
C3_NoIndexingWhenZero ==
    \A p \in Procs :
        (Returned(p) /\ proc[p].result = 0) =>
            /\ "index" \notin Range(hist[p].order)
            /\ hist[p].posts = <<>>
            /\ proc[p].pc \notin {"idxResolve", "idxPost"}

C3_Witness ==
    /\ proc["manual"].pc = "markCompleted"
    /\ Returned("manual")
    /\ proc["manual"].result = 0
    /\ hist["manual"].order = <<"ingest", "return">>

C4_Safe ==
    \A p \in Procs :
        (Returned(p) /\ proc[p].result > 0) =>
            /\ hist[p].order = <<"ingest", "return", "index">>
            /\ proc[p].pc \in {"idxResolve", "idxPost", "markCompleted", "markFailed", "done"}
            /\ proc[p].pc \in {"markCompleted", "markFailed"} => p = "manual" /\ proc[p].jobId # 0
            /\ (proc[p].pc = "done" /\ (p = "sched" \/ proc[p].jobId = 0)) =>
                   hist[p].outcome = "completed"

\* a step of triggerIndexing either uses up one of the guilds left to post to
\* or leaves it for the end of the run (the status write of a manual job)
C4_Step ==
    \A p \in Procs :
        (proc[p].pc \in {"idxResolve", "idxPost"} /\ proc'[p] # proc[p]) =>
            /\ proc'[p].pc \in {"idxPost", "markCompleted", "done"}
            /\ proc'[p].pc = "idxPost" =>
                   /\ proc'[p].guilds # <<>>
                   /\ proc[p].pc = "idxPost" => Len(proc'[p].guilds) < Len(proc[p].guilds)
            /\ proc'[p].pc = "markCompleted" => p = "manual" /\ proc[p].jobId # 0
            /\ hist'[p].order = hist[p].order

\* C4: when ingestMessages returns one or more, triggerIndexing is called
\* exactly once in that run, after the return, and the run then ends: each
\* step of the indexing call uses up one guild, and the call is followed by the
\* end of the scheduled cycle or by the status write of the manual job.
C4_IndexOnceThenEnd == []C4_Safe /\ [][C4_Step]_vars

C4_Witness ==
    /\ proc["sched"].pc = "done"
    /\ Returned("sched")
    /\ proc["sched"].result > 1
    /\ hist["sched"].order = <<"ingest", "return", "index">>
    /\ Len(hist["sched"].posts) = 2

\* the page sizes of the fetches that drain n items with page size P
PageSizes(n, P) == [i \in 1..(n \div P + 1) |-> IF i <= n \div P THEN P ELSE n % P]

IsPrefix(a, b) == Len(a) <= Len(b) /\ \A i \in 1..Len(a) : a[i] = b[i]

\* the remote items of channel c after the resume cursor of run p hold none
\* written by the bot
NoneSelfAuthored(p, c) ==
    \A m \in remote : (m.ch = c /\ m.id \in hist[p].src[c].unseen) => m.author # BotId

\* C5: a channel with n remote items after the resume cursor, none written by
\* the bot, and no failing operation, is read in pages of MAX_FETCH_LIMIT
\* items; the first page shorter than MAX_FETCH_LIMIT is the last fetch, and the
\* count of the channel is n (n = 5 with pages of 2: fetches of 2, 2, 1).
C5_Paging ==
    \A p \in Procs : \A c \in Channels :
        LET h == hist[p].src[c]
            n == Cardinality(h.unseen)
        IN (h.state \in {"active", "ok"} /\ NoneSelfAuthored(p, c)) =>
             /\ IsPrefix(h.fetchLog, PageSizes(n, MAX_FETCH_LIMIT))
             /\ h.state = "ok" => h.fetchLog = PageSizes(n, MAX_FETCH_LIMIT) /\ h.cnt = n
             /\ (h.state = "active" /\ proc[p].pc \in {"statsGet", "statsSet"}) =>
                    h.fetchLog = PageSizes(n, MAX_FETCH_LIMIT) /\ proc[p].count = n

C5_Witness ==
    LET h == hist["sched"].src["c1"]
        n == Cardinality(h.unseen)
    IN /\ h.state = "ok"
       /\ NoneSelfAuthored("sched", "c1")
       /\ n > MAX_FETCH_LIMIT /\ n % MAX_FETCH_LIMIT # 0
       /\ Len(h.fetchLog) = n \div MAX_FETCH_LIMIT + 1
       /\ h.cnt = n
       /\ proc["sched"].pc = "done" /\ proc["sched"].result >= n

\* id is the _id of a stored document of channel c that no stored document
\* of c exceeds in timestamp, or 0 when nothing of c is stored
IsResumePoint(c, id) ==
    LET docs == {d \in BagToSet(store) : d.channel = c}
    IN IF docs = {} THEN id = 0
       ELSE \E d \in docs : d._id = id /\ \A e \in docs : e.timestamp <= d.timestamp

\* C6: when the ingestion of a channel starts, the cursor is the id of a
\* stored document of that channel with the greatest timestamp (0 when the
\* channel has none), whatever is stored for other channels, and the first
\* page holds only messages of the channel with a greater id.
C6_ResumeCursor ==
    \A p \in Procs :
        LET r == proc[p]
            h == hist[p].src[r.ch]
        IN /\ (r.pc = "fetch" /\ h.fetchLog = <<>>) =>
                 r.cursor = h.startCursor /\ IsResumePoint(r.ch, r.cursor)
           /\ (r.pc = "write" /\ Len(h.fetchLog) = 1) =>
                 \A i \in 1..Len(r.page) : r.page[i].id > h.startCursor /\ r.page[i].ch = r.ch

C6_Witness ==
    LET r == proc["sched"]
    IN /\ r.pc = "fetch" /\ r.ch = "c1"
       /\ hist["sched"].src["c1"].fetchLog = <<>>
       /\ r.cursor > 0
       /\ \E d \in BagToSet(store) :
              d.channel = "c2" /\ d.timestamp > createdTimestamp(r.cursor)
       /\ \E m \in remote : m.ch = "c1" /\ m.id > r.cursor

\* C7: the count of ingestMessages counts only the documents whose _id was
\* not in the store before the write: a fetched message that is already stored
\* is overwritten and adds nothing to the count of its channel or to the total.
C7_CountsOnlyNew ==
    \A p \in Procs :
        /\ \A c \in Channels :
               hist[p].src[c].state = "ok" => hist[p].src[c].cnt = hist[p].src[c].fresh
        /\ (Returned(p) /\ \A c \in Channels : hist[p].src[c].state \in {"none", "ok"}) =>
               proc[p].result = hist[p].src["c1"].fresh + hist[p].src["c2"].fresh

\* the documents of bag S with the given _id, counted with multiplicity
CountOf(S, id) == BagCardinality([d \in {e \in BagToSet(S) : e._id = id} |-> S[d]])

\* C8: writing the page that is about to be written a second time changes
\* nothing: the store after two bulk writes equals the store after one, it
\* holds one document per _id of the page, and that document has the fields of
\* the message; the store never holds two documents with one _id.
C8_UpsertIdempotent ==
    /\ \A d \in BagToSet(store) : CountOf(store, d._id) = 1
    /\ \A p \in Procs :
          proc[p].pc = "write" =>
              LET messages == mapMessages(filterSelf(proc[p].page))
                  once == bulkWrite(store, messages)
                  twice == bulkWrite(once, messages)
              IN /\ twice = once
                 /\ BagCardinality(twice) = BagCardinality(once)
                 /\ \A i \in 1..Len(messages) :
                        /\ CountOf(twice, messages[i]._id) = 1
                        /\ messages[i] \in BagToSet(twice)

\* the manual run has written a page that the scheduled run had stored before
C8_Witness ==
    /\ hist["manual"].src["c1"].state = "ok"
    /\ hist["manual"].src["c1"].cnt > 0
    /\ hist["manual"].src["c1"].fresh = 0
    /\ hist["sched"].src["c1"].fresh > 0
    /\ BagCardinality(store) = Cardinality(BagToSet(store))

\* C9: the store, which starts without documents written by the bot, never
\* holds a document whose author is the bot, whatever the fetched pages hold.
C9_NoSelfAuthored == \A d \in BagToSet(store) : d.author # BotId

\* a finished channel whose pages held messages of the bot next to others
C9_Witness ==
    LET h == hist["sched"].src["c1"]
    IN /\ h.state = "ok"
       /\ h.cnt > 0
       /\ \E m \in remote : m.ch = "c1" /\ m.id \in h.unseen /\ m.author = BotId
       /\ \E m \in remote : m.ch = "c1" /\ m.id \in h.unseen /\ m.author # BotId
                               /\ toDocument(m) \in BagToSet(store)

\* the messages of channel c after the resume cursor of run p that are not
\* written by the bot
Expected(p, c) ==
    {m \in remote : m.ch = c /\ m.id \in hist[p].src[c].unseen /\ m.author # BotId}

\* a channel that is ingested without an error stores and counts its messages,
\* whatever happened to the channels before it, and a call that returns has
\* attempted every channel of its list
C10_Later ==
    \A p \in Procs :
        /\ \A c \in Channels :
              hist[p].src[c].state = "ok" =>
                  /\ hist[p].src[c].cnt = Cardinality(Expected(p, c))
                  /\ \A m \in Expected(p, c) : toDocument(m) \in BagToSet(store)
        /\ Returned(p) =>
              \A i \in 1..Len(ingestList(proc[p].filter)) :
                  hist[p].src[ingestList(proc[p].filter)[i]].state \in {"ok", "failed"}

\* the step in which a channel fails is caught: nothing is thrown, the loop
\* goes on with the next channel of the list (or returns the total when the
\* list is used up), and the documents of other channels are untouched
C10_Step ==
    \A p \in Procs : \A c \in Channels :
        (hist[p].src[c].state # "failed" /\ hist'[p].src[c].state = "failed") =>
            /\ c = proc[p].ch
            /\ proc'[p].threw = proc[p].threw /\ ~proc'[p].threw
            /\ proc'[p].total = proc[p].total
            /\ IF proc[p].chans = <<>>
               THEN proc'[p].pc = "close" /\ proc'[p].result = proc[p].total
               ELSE /\ proc'[p].pc = "resolve"
                    /\ proc'[p].ch = Head(proc[p].chans)
                    /\ proc'[p].chans = Tail(proc[p].chans)
            /\ \A d \in BagToSet(store) \cup BagToSet(store') :
                   d.channel # c => CopiesIn(d, store') = CopiesIn(d, store)

\* C10: when resolving, fetching or storing fails for a channel, the error is
\* caught inside ingestMessages, which does not throw, and the channels later
\* in the list are ingested as they are when nothing fails.
C10_ErrorIsolation == []C10_Later /\ [][C10_Step]_vars

C10_Witness ==
    /\ hist["sched"].src["c1"].state = "failed"
    /\ hist["sched"].src["c2"].state = "ok"
    /\ hist["sched"].src["c2"].cnt = 1
    /\ Returned("sched")
    /\ proc["sched"].result = 1
    /\ proc["sched"].pc = "done"

\* C11: the total that ingestMessages returns holds, for every channel, the
\* number of documents the call committed for it, also for a channel that
\* failed after some of its pages (or the first operations of a page) were
\* written.
C11_PartialContribution ==
    \A p \in Procs :
        Returned(p) =>
            proc[p].result = hist[p].src["c1"].committed + hist[p].src["c2"].committed

\* the guilds of the requests made so far by the indexing call of run p
Posted(p) == [i \in 1..Len(hist[p].posts) |-> hist[p].posts[i][1]]

\* the requests made so far and the guilds still to come are the resolved
\* guilds, each once; when the call is over every resolved guild had a request
C12_AllAttempted ==
    \A p \in Procs :
        /\ proc[p].pc = "idxPost" =>
               /\ Posted(p) \o proc[p].guilds = hist[p].resolved
               /\ proc[p].guilds # <<>>
        /\ ("index" \in Range(hist[p].order) /\ proc[p].pc \notin {"idxResolve", "idxPost"}) =>
               Posted(p) = hist[p].resolved
        /\ \A i, j \in 1..Len(hist[p].resolved) :
               hist[p].resolved[i] = hist[p].resolved[j] => i = j

\* a request that fails or times out is followed by the request of the next
\* guild, and nothing is thrown to the caller
C12_Step ==
    \A p \in Procs :
        (proc[p].pc = "idxPost" /\ Len(hist'[p].posts) = Len(hist[p].posts) + 1) =>
            /\ hist'[p].posts[Len(hist'[p].posts)][1] = Head(proc[p].guilds)
            /\ proc'[p].threw = proc[p].threw
            /\ Tail(proc[p].guilds) # <<>> =>
                   proc'[p].pc = "idxPost" /\ proc'[p].guilds = Tail(proc[p].guilds)

\* C12: in one call of triggerIndexing a request that fails or times out does
\* not keep the request of another guild from being made: every resolved guild
\* gets one request, whatever the outcome of the requests before it.
C12_GroupIsolation == []C12_AllAttempted /\ [][C12_Step]_vars

C12_Witness ==
    /\ proc["sched"].pc = "done"
    /\ Len(hist["sched"].posts) = 2
    /\ hist["sched"].posts[1][2] = FALSE
    /\ hist["sched"].posts[2][2] = TRUE
    /\ hist["sched"].posts[1][1] # hist["sched"].posts[2][1]

\* the indexing call of run p is over
IndexingDone(p) ==
    "index" \in Range(hist[p].order) /\ proc[p].pc \notin {"idxResolve", "idxPost"}

NoRepeat(q) == \A i, j \in 1..Len(q) : q[i] = q[j] => i = j

\* C13 as stated: the guilds that get a request in a run are the guilds of the
\* channels given to that run (of the one channel of a restricted manual job),
\* each guild once.
C13_GroupsOfGivenSources ==
    \A p \in Procs :
        IndexingDone(p) =>
            /\ Range(Posted(p)) = {guildOf[c] : c \in Range(ingestList(proc[p].filter))}
            /\ NoRepeat(Posted(p))

\* C13, amended: the guilds that get a request in a run are the guilds of the
\* configured channels (config.channelIds) that resolve in triggerIndexing,
\* each guild once, whatever channel the run was restricted to.
C13_GroupsOfConfigured ==
    \A p \in Procs :
        IndexingDone(p) =>
            /\ Range(Posted(p)) = {guildOf[c] : c \in Range(channelIds) \ hist[p].unresolved}
            /\ NoRepeat(Posted(p))

\* a manual job restricted to the first channel has asked for the guild of the
\* second channel too
C13_Witness ==
    /\ IndexingDone("manual")
    /\ proc["manual"].filter = "c1"
    /\ Range(Posted("manual")) = {"gA", "gB"}
    /\ guildOf["c1"] = "gA"

\* two channels of one guild lead to one request
C13_SharedWitness ==
    /\ IndexingDone("sched")
    /\ guildOf = sharedGuild
    /\ hist["sched"].unresolved = {}
    /\ Posted("sched") = <<"gA">>

\* the consumer is at work on a job with an id that names a channel, and no
\* operation has failed
CleanJob ==
    /\ proc["manual"].jobId # 0
    /\ proc["manual"].filter # None
    /\ faultsLeft = MaxFaults

\* from the start of ingestMessages to the last status write the record of
\* the job says running, with its start fields; at the end of the job it says
\* completed, with completed_at and the number of messages of the channel
\* after the cursor that the bot did not write
C14_Record ==
    CleanJob =>
        LET r == proc["manual"]
            j == jobs[r.jobId]
        IN /\ r.pc \in {"connect", "resolve", "cursor", "fetch", "write", "statsGet",
                         "statsSet", "close", "idxResolve", "idxPost", "markCompleted"} =>
                  j.status = "running" /\ j.started /\ ~j.completed /\ j.ingested = -1
           /\ r.pc = "markRunning" => hist["manual"].order = <<>>
           /\ r.pc # "markFailed"
           /\ r.pc = "done" =>
                  /\ j.status = "completed" /\ j.started /\ j.completed /\ ~j.error
                  /\ j.ingested = Cardinality(Expected("manual", r.filter))
                  /\ hist["manual"].src[r.filter].state = "ok"

\* the status of a completed job is not written again
C14_Step == \A j \in JobIds : jobs[j].status = "completed" => jobs'[j] = jobs[j]

C15_Record ==
    LET r == proc["manual"]
    IN r.jobId # 0 =>
         /\ r.pc = "markFailed" =>
                /\ jobs[r.jobId].status = "running"
                /\ jobs[r.jobId].ingested = -1 /\ ~jobs[r.jobId].completed
         /\ (r.pc = "done" /\ hist["manual"].outcome = "failed") =>
                /\ jobs[r.jobId].status = "failed"
                /\ jobs[r.jobId].error /\ jobs[r.jobId].completed
                /\ jobs[r.jobId].ingested = -1

\* a throw of ingestMessages, or of the completed write, leads to the catch
\* block and to nothing else; the record of a failed job is not written again
C15_Step ==
    LET r == proc["manual"]
        t == proc'["manual"]
    IN /\ (r.jobId # 0 /\ r.pc = "close" /\ t.threw) =>
              t.pc = "markFailed" /\ hist'["manual"].posts = <<>> /\ jobs' = jobs
       /\ (r.pc = "markCompleted" /\ t.pc # "done") =>
              t.pc = "markFailed" /\ jobs' = jobs
       /\ (r.pc = "markFailed" /\ t.pc # "markFailed") => t.pc = "done"
       /\ \A j \in JobIds : jobs[j].status = "failed" => jobs'[j] = jobs[j]

C16_Record ==
    LET r == proc["manual"]
        h == hist["manual"]
    IN /\ r.filter # None =>
             /\ r.ch \in {None, r.filter}
             /\ \A c \in Channels \ {r.filter} : h.src[c] = NoSrc
       /\ (r.pc # "poll" /\ r.filter = None /\ Returned("manual")) =>
             \A i \in 1..Len(channelIds) :
                 /\ h.src[channelIds[i]].state \in {"ok", "failed"}
                 /\ faultsLeft = MaxFaults =>
                        /\ h.src[channelIds[i]].state = "ok"
                        /\ \A m \in Expected("manual", channelIds[i]) :
                               toDocument(m) \in BagToSet(store)

\* no step of a job that names a channel changes a document or the resume
\* cursor of another channel
C16_Step ==
    LET r == proc["manual"]
    IN (r.pc # "poll" /\ r.filter # None) =>
          /\ \A d \in BagToSet(store) \cup BagToSet(store') :
                 d.channel # r.filter => CopiesIn(d, store') = CopiesIn(d, store)
          /\ \A c \in Channels \ {r.filter} :
                 getLatestStoredMessageId(store', c) = getLatestStoredMessageId(store, c)

\* C16: a manual job that names a channel ingests that channel only: the
\* stored documents and the cursor of every other channel are unchanged by
\* it; a manual job that names no channel ingests every configured channel.
C16_RestrictedJob == []C16_Record /\ [][C16_Step]_vars

\* a job for the first channel is over and the message of the second channel
\* is still not stored
C16_Witness ==
    /\ proc["manual"].pc = "done"
    /\ proc["manual"].filter = "c1"
    /\ hist["manual"].src["c1"].state = "ok"
    /\ hist["manual"].src["c1"].cnt > 0
    /\ \E m \in remote : m.ch = "c2" /\ \A d \in BagToSet(store) : d._id # m.id

\* the consumer takes a payload that does not parse from the queue: no record
\* and no document is written and no call is made; its next step is the next
\* poll
C17_Step ==
    LET r == proc["manual"]
        t == proc'["manual"]
    IN /\ (r.pc = "poll" /\ t # r /\ ~Head(queue).parses) =>
              /\ t.pc = "done" /\ hist'["manual"].outcome = "discarded"
              /\ hist'["manual"].order = <<>> /\ hist'["manual"].posts = <<>>
              /\ jobs' = jobs /\ store' = store /\ stats' = stats
              /\ queue' = Tail(queue)
       /\ (r.pc = "done" /\ hist["manual"].outcome = "discarded" /\ t # r) =>
              /\ t = idleProc("poll")
              /\ jobs' = jobs /\ store' = store /\ stats' = stats

\* C17: a dequeued payload that fails to parse leads to no job record, no
\* ingestion, no indexing and no change of the store, and the consumer polls
\* again.
C17_Malformed ==
    /\ [](hist["manual"].outcome = "discarded" =>
             /\ proc["manual"].pc = "done"
             /\ hist["manual"].order = <<>> /\ hist["manual"].posts = <<>>)
    /\ [][C17_Step]_vars

C17_Witness ==
    /\ proc["manual"].pc = "done"
    /\ hist["manual"].outcome = "discarded"
    /\ nenq > 0
    /\ jobs = NoJobs

\* however an attempt of the consumer ended, its re-entry into pollQueue is
\* ready to run, and a consumer that polls can take the head of the queue
C18_Record ==
    LET r == proc["manual"]
    IN /\ r.pc = "done" =>
             /\ hist["manual"].outcome \in {"completed", "failed", "discarded", "aborted"}
             /\ ENABLED Return("manual")
       /\ r.pc = "poll" =>
             /\ ENABLED M_Poll
             /\ queue # <<>> => ENABLED (M_Poll /\ queue' = Tail(queue))

\* the step after the end of an attempt is the next poll, with the queue as it
\* is; the step of a polling consumer takes the head of the queue
C18_Step ==
    LET r == proc["manual"]
        t == proc'["manual"]
    IN /\ (r.pc = "done" /\ t # r) => t = idleProc("poll") /\ queue' = queue
       /\ (r.pc = "poll" /\ t # r) => queue # <<>> /\ queue' = Tail(queue)

C19_Record ==
    LET r == proc["sched"]
        h == hist["sched"]
    IN (r.pc = "done" /\ h.outcome = "failed") =>
          /\ h.posts = <<>>
          /\ h.order \in {<<>>, <<"ingest", "return">>}
          /\ h.order # <<>> => r.threw

\* a gate check or an ingestion that throws ends the cycle at once; the cycle
\* leaves no re-entry behind, and the next fire of the timer starts with
\* maxRetries retries
C19_Step ==
    LET r == proc["sched"]
        t == proc'["sched"]
    IN /\ (r.pc = "gate" /\ t # r /\ faultsLeft' < faultsLeft) =>
              /\ t.pc = "done" /\ hist'["sched"].outcome = "failed"
              /\ hist'["sched"].order = <<>>
              /\ hist'["sched"].backoffs = hist["sched"].backoffs
       /\ (r.pc = "close" /\ t.threw) =>
              t.pc = "done" /\ hist'["sched"].outcome = "failed"
       /\ (r.pc = "done" /\ t # r) => t = idleProc("idle") /\ hist'["sched"] = freshHist
       /\ (r.pc = "idle" /\ t # r) =>
              t.pc = "gate" /\ t.retries = maxRetries /\ hist'["sched"] = freshHist

\* C19: an error of the gate check or of ingestMessages in a scheduled cycle
\* is caught in runScheduledJob: the cycle ends there, with no backoff re-entry
\* and no later call, and the next fire of the timer starts a cycle with
\* retriesRemaining = maxRetries.
C19_CycleErrors == []C19_Record /\ [][C19_Step]_vars

\* ingestMessages stored messages and threw when the connection was closed:
\* the cycle ended without the indexing call
C19_Witness ==
    /\ proc["sched"].pc = "done"
    /\ hist["sched"].outcome = "failed"
    /\ proc["sched"].threw
    /\ proc["sched"].result > 0
    /\ hist["sched"].posts = <<>>

\* the documents a single complete run leaves for channel c: one for every
\* message of the channel that the bot did not write
SingleRunDocs(c) == {toDocument(m) : m \in {x \in remote : x.ch = c /\ x.author # BotId}}

\* C20: when the scheduled run and a manual run ingest a channel at the same
\* time, in whatever order their cursor reads, fetches and writes fall, the
\* store holds one document per _id, each with the fields of its message, and
\* once a run is through with the channel the documents of the channel are
\* those that a single run leaves.
C20_RaceHarmless ==
    /\ \A d \in BagToSet(store) :
          /\ CopiesIn(d, store) = 1
          /\ \A e \in BagToSet(store) : e._id = d._id => e = d
          /\ d \in SingleRunDocs(d.channel)
    /\ \A p \in Procs : \A c \in Channels :
          hist[p].src[c].state = "ok" =>
              {d \in BagToSet(store) : d.channel = c} = SingleRunDocs(c)

\* both runs have read the cursor of the empty channel, fetched the same
\* message and written it
C20_Witness ==
    /\ \A p \in Procs :
          /\ hist[p].src["c1"].state = "ok"
          /\ hist[p].src["c1"].startCursor = 0
          /\ hist[p].src["c1"].committed > 0
    /\ BagCardinality(store) >= 1

\* the cutoff of a gate check is the time of the call minus the quiet period;
\* the check reports activity exactly when a stored document of whatever
\* channel has a timestamp at or after the cutoff, and it writes nothing
C21_Step ==
    LET r == proc["sched"]
        t == proc'["sched"]
    IN /\ (t.pc = "gate" /\ r.pc # "gate") => t.cutoff = now - quietPeriodMinutes
       /\ (r.pc = "gate" /\ t # r) =>
              /\ store' = store
              /\ faultsLeft' = faultsLeft =>
                     hist'["sched"].gate =
                         IF \E d \in BagToSet(store) : d.timestamp >= r.cutoff
                         THEN "active" ELSE "quiet"

\* C21: hasRecentActivity(q) returns true exactly when the store holds a
\* document, of any channel, whose timestamp is greater than or equal to the
\* time of the call minus q, and it leaves the stored documents unchanged.
C21_GateValue == [][C21_Step]_vars

\* the check reported activity for a document right at the cutoff
C21_Witness ==
    /\ hist["sched"].gate = "active"
    /\ proc["sched"].pc \in {"backoff", "done"}
    /\ BagToSet(store) # {}
    /\ \A d \in BagToSet(store) : d.timestamp = proc["sched"].cutoff

\* the number of remote messages of channel c after the resume cursor of run p
Unseen(p, c) == Cardinality(hist[p].src[c].unseen)

\* the fetches of a channel with a positive multiple of MAX_FETCH_LIMIT
\* messages after the cursor are the full pages and then one empty page
C22_Fetches ==
    \A p \in Procs : \A c \in Channels :
        LET h == hist[p].src[c]
        IN (h.state \in {"active", "ok"} /\ Unseen(p, c) > 0
            /\ Unseen(p, c) % MAX_FETCH_LIMIT = 0) =>
              /\ IsPrefix(h.fetchLog, PageSizes(Unseen(p, c), MAX_FETCH_LIMIT))
              /\ h.state = "ok" => h.fetchLog = PageSizes(Unseen(p, c), MAX_FETCH_LIMIT)

\* the fetch after the last full page changes neither the store, the cursor
\* nor the count, and ends the loop
C22_Step ==
    \A p \in Procs :
        LET r == proc[p]
            t == proc'[p]
        IN (r.pc = "fetch" /\ t # r /\ faultsLeft' = faultsLeft
            /\ Unseen(p, r.ch) > 0 /\ Unseen(p, r.ch) % MAX_FETCH_LIMIT = 0
            /\ Len(hist[p].src[r.ch].fetchLog) = Unseen(p, r.ch) \div MAX_FETCH_LIMIT) =>
              /\ store' = store
              /\ t.cursor = r.cursor /\ t.count = r.count
              /\ t.pc = "statsGet"

\* C22: when the number of messages of a channel after the cursor is a
\* positive multiple of the page size, ingestMessages makes exactly one more
\* fetch, which returns an empty page; that fetch changes neither the store,
\* the cursor nor the count, and the loop of the channel ends right after it.
C22_ExtraEmptyFetch == []C22_Fetches /\ [][C22_Step]_vars

\* id is the id of a message of the page that no message of the page exceeds
\* in timestamp
IsLatestOf(page, id) ==
    \E i \in 1..Len(page) :
        /\ page[i].id = id
        /\ \A j \in 1..Len(page) : createdTimestamp(page[j].id) <= createdTimestamp(page[i].id)

\* a fetch that returns messages and is followed by another fetch is followed
\* by a cursor that is the latest message of the page, whether the page is
\* written or holds nothing to write
C23_Step ==
    \A p \in Procs :
        LET r == proc[p]
            t == proc'[p]
            page == fetchPage(r.ch, r.cursor, MAX_FETCH_LIMIT)
        IN /\ (r.pc = "write" /\ t.pc = "fetch") => IsLatestOf(r.page, t.cursor)
           /\ (r.pc = "fetch" /\ t.pc = "fetch" /\ hist'[p] # hist[p] /\ page # <<>>) =>
                  IsLatestOf(page, t.cursor)

\* C23: after each fetched page that is not empty, the cursor of the next
\* fetch is the message with the greatest timestamp among the messages of that
\* page.
C23_CursorAdvance == [][C23_Step]_vars

\* a gate check that reports no activity is followed at once by the call of
\* ingestMessages for all channels, and the cycle counts no further backoff
C24_Step ==
    LET r == proc["sched"]
        t == proc'["sched"]
    IN /\ (r.pc = "gate" /\ t # r /\ hist'["sched"].gate = "quiet") =>
              /\ t.pc = "connect"
              /\ t.chans = channelIds
              /\ hist'["sched"].order = <<"ingest">>
       /\ (hist["sched"].gate = "quiet" /\ t.pc # "idle") =>
              /\ hist'["sched"].backoffs = hist["sched"].backoffs
              /\ t.pc # "backoff" /\ t.pc # "gate"

\* C24: a gate check that reports no activity is followed by ingestion in the
\* same pass, whatever retriesRemaining is (0 after the last backoff too), and
\* by no further backoff re-entry in that cycle.
C24_QuietIngests ==
    /\ [](hist["sched"].gate = "quiet" => proc["sched"].pc \notin {"gate", "backoff", "idle"})
    /\ [][C24_Step]_vars

\* the check after the last backoff found no activity: ingestion has started
C24_Witness ==
    /\ proc["sched"].pc = "connect"
    /\ proc["sched"].retries = 0
    /\ hist["sched"].backoffs = maxRetries
    /\ hist["sched"].gate = "quiet"
    /\ maxRetries > 0

\* the documents a run wrote for a channel are in the store, whether the
\* channel failed later or not
C25_Record ==
    \A p \in Procs : \A c \in Channels :
        Cardinality({d \in BagToSet(store) :
                        d.channel = c /\ d._id \in hist[p].src[c].unseen})
            >= hist[p].src[c].committed

\* no step removes a stored document or changes one of its fields
C25_Step ==
    \A d \in BagToSet(store) : d \in BagToSet(store') /\ CopiesIn(d, store') >= CopiesIn(d, store)

\* C25: what was written for a channel before an error stays in the store:
\* when ingestMessages has returned, every document written before the failure
\* is stored with the fields that were written, and ingestion removes nothing.
C25_NoRollback == []C25_Record /\ [][C25_Step]_vars

\* the first channel failed after a full page was written, and the call
\* returned
C25_Witness ==
    /\ hist["sched"].src["c1"].state = "failed"
    /\ hist["sched"].src["c1"].committed >= MAX_FETCH_LIMIT
    /\ Len(hist["sched"].src["c1"].fetchLog) >= 2
    /\ Returned("sched")
    /\ proc["sched"].pc = "done"

\* number of requests run p sent for guild g
Requests(p, g) == Cardinality({i \in 1..Len(hist[p].posts) : hist[p].posts[i][1] = g})

\* no guild has more than one request in the posts of a call
C26_AtMostOnce == \A p \in Procs : \A g \in Guilds : Requests(p, g) <= 1

\* the guild of a request that was just made, whatever its outcome, is not
\* among the guilds still to be requested
C26_Step ==
    \A p \in Procs :
        (proc[p].pc = "idxPost" /\ Len(hist'[p].posts) = Len(hist[p].posts) + 1) =>
            Head(proc[p].guilds) \notin Range(proc'[p].guilds)

\* C26: in one call of triggerIndexing each guild gets at most one request,
\* whether the request succeeds, fails or times out: no request is sent again.
C26_NeverResent == []C26_AtMostOnce /\ [][C26_Step]_vars

\* both channels are in one guild, its only request failed, and the call is
\* over
C26_Witness ==
    /\ guildOf["c1"] = guildOf["c2"]
    /\ proc["manual"].pc \in {"markCompleted", "done"}
    /\ hist["manual"].unresolved = {}
    /\ Len(hist["manual"].posts) = 1
    /\ hist["manual"].posts[1][2] = FALSE

\* number of failures inside the triggerIndexing call of run p: channels that
\* could not be resolved and requests that were rejected
IdxFaults(p) ==
    Cardinality(hist[p].unresolved)
        + Cardinality({i \in 1..Len(hist[p].posts) : ~hist[p].posts[i][2]})

\* every failure so far happened inside triggerIndexing
OnlyIdxFaults == MaxFaults - faultsLeft = IdxFaults("sched") + IdxFaults("manual")

\* a run whose only failures were inside triggerIndexing ends completed; the
\* record of its job says completed, with the count ingestMessages returned
C27_Record ==
    \A p \in Procs :
        (OnlyIdxFaults /\ IdxFaults(p) > 0) =>
            /\ ~proc[p].threw
            /\ proc[p].pc \notin {"markFailed", "backoff"}
            /\ proc[p].pc = "done" =>
                   /\ hist[p].outcome = "completed"
                   /\ (p = "manual" /\ proc[p].jobId # 0) =>
                          LET j == jobs[proc[p].jobId]
                          IN j.status = "completed" /\ j.completed /\ ~j.error
                             /\ j.ingested = proc[p].result

\* the step that ends triggerIndexing goes where a call without failures
\* goes, and changes neither the count nor the error state of the run
C27_Step ==
    \A p \in Procs :
        (proc[p].pc \in {"idxResolve", "idxPost"}) =>
            /\ proc'[p].result = proc[p].result
            /\ proc'[p].threw = proc[p].threw
            /\ proc'[p].pc \notin {"idxResolve", "idxPost"} =>
                   IF p = "manual" /\ proc[p].jobId # 0
                   THEN proc'[p].pc = "markCompleted"
                   ELSE proc'[p].pc = "done" /\ hist'[p].outcome = "completed"

\* C27: a failure inside triggerIndexing (a channel that cannot be resolved, a
\* rejected request) does not change the outcome of the run: the job ends
\* completed with the ingested count, the scheduled cycle ends without error.
C27_IndexingFailureIgnored == []C27_Record /\ [][C27_Step]_vars

\* a job whose only request was rejected is recorded as completed with the
\* messages it stored
C27_Witness ==
    /\ proc["manual"].pc = "done"
    /\ proc["manual"].jobId # 0
    /\ Len(hist["manual"].posts) >= 1
    /\ ~hist["manual"].posts[1][2]
    /\ jobs[proc["manual"].jobId].status = "completed"
    /\ jobs[proc["manual"].jobId].ingested > 0

C27_SchedWitness ==
    /\ proc["sched"].pc = "done"
    /\ hist["sched"].unresolved # {}
    /\ hist["sched"].outcome = "completed"

\* the count run p reported for channel c, if c is in guild g and its
\* iteration reached the end
ReportedFor(p, c, g) ==
    IF guildOf[c] = g /\ hist[p].src[c].state = "ok" THEN hist[p].src[c].cnt ELSE 0

\* the sum of the counts run p reported for the channels of guild g
Reported(p, g) == ReportedFor(p, "c1", g) + ReportedFor(p, "c2", g)

\* C28: total_messages of a guild is updated additively: when the first
\* scheduled run and the first manual run are both over, also when their
\* stats updates interleaved, the counter of each guild is its initial value
\* (0) plus the counts the two runs reported for the channels of the guild.
C28_StatsAdditive ==
    (nfires = 1 /\ nenq = 1 /\ queue = <<>>
        /\ proc["sched"].pc = "done" /\ proc["manual"].pc = "done") =>
        \A g \in Guilds : stats[g] = Reported("sched", g) + Reported("manual", g)

\* run p is inside the try block of ingestMessages or in its finally block
InIngest(p) ==
    proc[p].pc \in {"connect", "resolve", "cursor", "fetch", "write", "statsGet",
                    "statsSet", "close"}

\* C30: the connection is opened and closed around each operation: when
\* hasRecentActivity or ingestMessages has returned, normally or by throwing,
\* the run holds no open connection; inside ingestMessages the connection is
\* open from the fulfilled connect() on.
C30_ConnectionClosed ==
    \A p \in Procs :
        /\ ~InIngest(p) => ~proc[p].conn
        /\ proc[p].pc \in {"resolve", "cursor", "fetch", "write", "statsGet", "statsSet"}
               => proc[p].conn

\* the gate check threw and the error was caught by runScheduledJob
C30_Witness ==
    /\ proc["sched"].pc = "done"
    /\ hist["sched"].outcome = "failed"
    /\ hist["sched"].checks = 1
    /\ hist["sched"].order = <<>>
    /\ ~proc["sched"].conn

\* ingestMessages returned after a channel failed
C30_IngestWitness ==
    /\ hist["manual"].src["c1"].state = "failed"
    /\ "return" \in Range(hist["manual"].order)
    /\ ~proc["manual"].conn

\* C29: a shutdown signal does not cut off an ingestion in progress: a fetch
\* or a bulkWrite that was pending when the signal arrived has settled (the run
\* has moved on) when the process exits.
C29_NoCutOff ==
    shutdownState.phase = "exited" =>
        \A p \in Procs :
            shutdownState.inFlight[p] = <<>> \/ shutdownState.inFlight[p] # <<proc[p], hist[p]>>

\* a channel with n messages after the cursor is fetched at most n + 1 times
C31_Bound ==
    \A p \in Procs : \A c \in Channels :
        Len(hist[p].src[c].fetchLog) <= Unseen(p, c) + 1

\* every return to the head of the do-while loop has moved the cursor forward,
\* so that fewer remote messages are left after it
C31_Step ==
    \A p \in Procs :
        (/\ proc[p].pc \in {"fetch", "write"}
         /\ proc'[p].pc = "fetch"
         /\ <<proc'[p], hist'[p]>> # <<proc[p], hist[p]>>) =>
            proc'[p].cursor > proc[p].cursor

\* C31: with a finite backlog to which nothing is added during the run, the
\* fetch loop of a channel ends after finitely many fetches, whatever mix of
\* messages of the bot and of others the pages hold.
C31_Terminates == []C31_Bound /\ [][C31_Step]_vars

\* the documents of the messages of channel c that the bot did not write
OthersOf(c) == {toDocument(m) : m \in {x \in remote : x.ch = c /\ x.author # BotId}}

\* run p went through channel c and through its finally block without an error
CleanRunOf(p, c) ==
    /\ proc[p].pc = "done"
    /\ hist[p].src[c].state = "ok"
    /\ ~proc[p].threw

\* C32: after any sequence of runs of a channel, some of which failed part-way,
\* a further run of the channel that meets no error leaves every remote message
\* of the channel that the bot did not write in the store.
C32_NothingSkipped ==
    \A p \in Procs : \A c \in Channels :
        CleanRunOf(p, c) => \A d \in OthersOf(c) : d \in BagToSet(store)

\* the number of documents run p added to the store
NewlyStored(p) == hist[p].src["c1"].fresh + hist[p].src["c2"].fresh

\* C33: a scheduled cycle or manual job that has added at least one document to
\* the store calls triggerIndexing in the same run, also when a channel failed
\* after some of its pages were written.
C33_IndexedWhenStored ==
    \A p \in Procs :
        (proc[p].pc = "done" /\ NewlyStored(p) > 0) => "index" \in Range(hist[p].order)

\* C34: no run closes the shared client while another run still has store
\* operations pending on it: a run that awaits a query or a bulkWrite, or is
\* between two of them, finds the client open as its own connect() left it.
C34_ClientStaysOpen ==
    \A p \in Procs :
        proc[p].pc \in {"resolve", "cursor", "fetch", "write", "statsGet", "statsSet"}
            => mongoClient = "open"

\* C35: every job record that the consumer sets to running reaches completed
\* or failed, whatever fails afterwards: a record says running only while
\* processManualTrigger is still handling that job, never once the handling is
\* over and the consumer polls again.
C35_NoJobLeftRunning ==
    \A j \in JobIds :
        jobs[j].status = "running" =>
            proc["manual"].jobId = j /\ proc["manual"].pc \notin {"done", "poll"}

\* the job records that say running
RunningJobs == {j \in JobIds : jobs[j].status = "running"}

\* a payload is taken from the head of the queue only by a consumer that is
\* at brPop, with nothing of an earlier job left to do
C36_Step ==
    queue' # queue /\ Len(queue') < Len(queue) =>
        /\ proc["manual"].pc = "poll"
        /\ hist["manual"] = freshHist
        /\ queue' = Tail(queue)

\* C36: manual jobs are handled one at a time in dequeue order: the consumer
\* polls again only when the handling of the job it took is over, so at most
\* one job record is in status running at any time.
C36_OneAtATime == [](Cardinality(RunningJobs) <= 1) /\ [][C36_Step]_vars

\* the consumer never runs the activity check and never waits in backoff
C37_NoGate ==
    /\ hist["manual"].checks = 0
    /\ hist["manual"].gate = None
    /\ proc["manual"].pc \notin {"gate", "backoff"}

\* a payload that parses starts processManualTrigger in the step that takes it
\* from the queue, and the accepted running write is followed by the connect
\* of ingestMessages, whatever the store and the scheduled cycle look like
C37_Step ==
    /\ (queue # <<>> /\ queue' = Tail(queue) /\ Head(queue).parses) =>
           proc'["manual"].pc = IF Head(queue).job_id # 0 THEN "markRunning" ELSE "connect"
    /\ (proc["manual"].pc = "markRunning" /\ proc'["manual"].pc # "markRunning"
            /\ faultsLeft' = faultsLeft) =>
           proc'["manual"].pc = "connect"

\* C37: a manual job never consults the activity gate: a dequeued job starts
\* its ingestion at once, also when the store shows activity inside the quiet
\* period and while a scheduled cycle is in backoff because of that activity.
C37_ManualSkipsGate == []C37_NoGate /\ [][C37_Step]_vars

\* the scheduled cycle waits in backoff, the store still shows recent activity,
\* and the manual job has started its ingestion
C37_Witness ==
    /\ proc["sched"].pc = "backoff"
    /\ hist["sched"].gate = "active"
    /\ hasRecentActivity(store, now - quietPeriodMinutes)
    /\ proc["manual"].pc = "connect"
    /\ hist["manual"].order = <<"ingest">>

\* C38: when a graceful shutdown is over the status hash says offline: no
\* write of online by the heartbeat timer lands after the offline write of
\* shutdown().
C38_OfflineAfterShutdown == shutdownState.phase = "exited" => botStatus = "offline"

====
